---- MODULE Spec2Model ----
(***************************************************************************)
(* Model of the Blockchain class of src/src/blockchain.js.                 *)
(*                                                                         *)
(* The class runs on the JavaScript event loop.  A call runs synchronously *)
(* up to its first `await`; the continuation is then a job of the          *)
(* microtask queue, which is first-in first-out.  The model keeps that     *)
(* queue (mq) and one record per in-flight call of initializeChain or      *)
(* submitStar; a step of the model is either a call made by a client (its  *)
(* synchronous part) or the job at the head of the queue.                  *)
(***************************************************************************)
EXTENDS Integers, Sequences, FiniteSets, TLC

\* ---- bounds of the model ----
MaxSubmits == 1      \* submitStar calls made over a run
MaxTicks == 2        \* advances of the wall clock over a run
MaxIssued == 1       \* distinct challenge messages the clients hold
MaxReads == 1        \* calls of read operations made over a run

\* ---- inputs ----
Addresses == {"A", "B"}
Stars == {"star1"}
\* the clock advances by half a second or by a little over five minutes
TickSteps == {500, 300500}

\* ---- values ----
\* the JavaScript value `undefined`
Undefined == <<>>
\* the data of the genesis block, line 42
GenesisData == <<"Genesis Block">>
\* the challenge window in seconds, line 127
ExpiryWindow == 60 * 5

\* a hash no block has, a forged hash and a forged payload
AbsentHash == <<"SHA256", <<"absent">>>>
ForgedHash == <<"SHA256", <<"forged">>>>
TamperedData == <<"tampered">>

GenesisTask == 0
\* the id of the getBlockByHash call in the microtask queue
HashTask == -1
Submits == 1..MaxSubmits
Tasks == {GenesisTask} \cup Submits

VARIABLES
    chain,       \* this.chain: the sequence of pushed blocks
    height,      \* this.height
    nowMs,       \* new Date().getTime(): the wall clock in milliseconds
    ticks,       \* how many times the clock has advanced
    issued,      \* the challenge messages the clients have been given
    tasks,       \* the in-flight calls: position, locals, promise
    mq,          \* the microtask queue: ids of the calls to resume, in order
    validation,  \* the validateChain call, if made
    reads,       \* the last call of a read operation that settles at once
    lookup       \* the getBlockByHash call, if made

vars == <<chain, height, nowMs, ticks, issued, tasks, mq, validation,
          reads, lookup>>

\* ---- pure helpers ----

\* new Date().getTime().toString().slice(0, -3): the decimal digits of the
\* milliseconds without the last three, i.e. the whole seconds
SliceSeconds(ms) == ms \div 1000

\* `${address}:${seconds}:starRegistry`
Message(address, seconds) == <<address, seconds, "starRegistry">>

\* parseInt(message.split(':')[1])
MessageTime(message) == message[2]

\* the wallet's signature of a message by the owner of an address
Sign(message, signer) == <<"sig", signer, message>>

\* the signatures a client may send with a message: one per signing wallet
Signatures(message) == {Sign(message, signer) : signer \in Addresses}

\* bitcoinMessage.verify(message, address, signature)
Verify(message, address, signature) == signature = Sign(message, address)

\* SHA256(...).toString(): a collision-free digest of its input
SHA256(input) == <<"SHA256", input>>

\* block.height + block.body + block.time + block.previousBlockHash
HashInput(block) ==
    <<block.height, block.body, block.time, block.previousBlockHash>>

\* new BlockClass.Block(data): a draft that holds the payload only
Block(data) ==
    [height |-> Undefined, body |-> data, time |-> Undefined,
     previousBlockHash |-> Undefined, hash |-> Undefined]

\* getChainHeight(): a promise already resolved with this.height
getChainHeight == height

\* self.chain.filter(p => p.height === height)[0], null when there is none
getBlockByHeight(h) ==
    LET matching == SelectSeq(chain, LAMBDA p : p.height = h)
    IN  IF matching # <<>> THEN <<matching[1]>> ELSE <<>>

\* the `.hash` property of the promise getBlockByHeight returns: a promise
\* has no such property
PromiseHashProperty(promise) == Undefined

IdleTask ==
    [pc |-> "idle", block |-> Block(Undefined), currentHeight |-> 0,
     address |-> "", star |-> "",
     expired |-> FALSE, verified |-> FALSE,
     verifyCalled |-> FALSE, addBlockCalled |-> FALSE,
     promise |-> "pending", result |-> <<>>,
     awaited |-> Undefined, raised |-> 0, pushed |-> 0]

\* no read operation has been called yet
NoRead ==
    [op |-> "none", arg |-> <<>>, promise |-> "pending", result |-> <<>>,
     n |-> 0]

\* getBlockByHash has not been called yet
IdleLookup ==
    [pc |-> "idle", hash |-> Undefined, height |-> -1, blocks |-> <<>>,
     promise |-> "pending", result |-> <<>>]

\* the number of calls of read operations made so far
ReadCalls ==
    reads.n + (IF lookup.pc = "idle" THEN 0 ELSE 1)
            + (IF validation.exec = "idle" THEN 0 ELSE 1)

\* ---- initial state: the constructor has returned ----
\* constructor(): chain = [], height = -1, initializeChain() runs up to the
\* await of line 76 inside _addBlock and the constructor returns
Init ==
    /\ chain = <<>>
    /\ height = -1
    /\ nowMs = 1000
    /\ ticks = 0
    /\ issued = {}
    /\ tasks = [t \in Tasks |->
                  IF t = GenesisTask
                  THEN [IdleTask EXCEPT
                          !.pc = "awaitHeight",
                          !.addBlockCalled = TRUE,
                          !.block = [Block(GenesisData) EXCEPT
                                       !.time = SliceSeconds(1000)],
                          !.currentHeight = -1]
                  ELSE IdleTask]
    /\ mq = <<GenesisTask>>
    /\ validation = [exec |-> "idle", promise |-> "pending", result |-> <<>>,
                     ledger |-> <<>>]
    /\ reads = NoRead
    /\ lookup = IdleLookup

\* ---- the environment ----

\* the wall clock advances
Tick(d) ==
    /\ ticks < MaxTicks
    /\ nowMs' = nowMs + d
    /\ ticks' = ticks + 1
    /\ UNCHANGED <<chain, height, issued, tasks, mq, validation, reads, lookup>>

\* ---- operations ----

\* requestMessageOwnershipVerification(address), lines 96-101
requestMessageOwnershipVerification(address) ==
    LET unsignedMessage == Message(address, SliceSeconds(nowMs))
    IN  /\ Cardinality(issued \cup {unsignedMessage}) <= MaxIssued
        /\ issued' = issued \cup {unsignedMessage}
        /\ UNCHANGED <<chain, height, nowMs, ticks, tasks, mq, validation, reads, lookup>>

\* submitStar(address, message, signature, star), lines 121-131: the
\* synchronous part, up to the await of line 76 inside _addBlock
submitStar(t, address, message, signature, star) ==
    /\ tasks[t].pc = "idle"
    /\ \A u \in Submits : u < t => tasks[u].pc # "idle"
    /\ LET messageTime == MessageTime(message)
           currentTime == SliceSeconds(nowMs)
           expired == currentTime - messageTime > ExpiryWindow
           block == Block(message)
       IN  tasks' = [tasks EXCEPT ![t] =
                       [IdleTask EXCEPT
                          !.pc = "awaitHeight",
                          !.address = address,
                          !.star = star,
                          !.expired = expired,
                          \* line 129: the result is dropped
                          !.verifyCalled = TRUE,
                          !.verified = Verify(message, address, signature),
                          \* line 131
                          !.addBlockCalled = TRUE,
                          \* line 127: reject() and carry on
                          !.promise = IF expired THEN "rejected" ELSE "pending",
                          \* line 74
                          !.block = [block EXCEPT !.time = SliceSeconds(nowMs)],
                          \* line 76: getChainHeight() is called now
                          !.currentHeight = getChainHeight]]
    /\ mq' = Append(mq, t)
    /\ UNCHANGED <<chain, height, nowMs, ticks, issued, validation, reads, lookup>>

\* addBlockAfterHeight with line 78 written as this.height = currentHeight + 1
addBlockAfterHeight_StaleHeight(t) ==
    /\ mq # <<>> /\ Head(mq) = t
    /\ tasks[t].pc = "awaitHeight"
    /\ LET currentHeight == tasks[t].currentHeight
           previous == PromiseHashProperty(getBlockByHeight(currentHeight))
       IN  /\ tasks' = [tasks EXCEPT
                          ![t].block.height = currentHeight + 1,
                          ![t].awaited = previous,
                          ![t].raised = @ + 1,
                          ![t].pc = "awaitPreviousHash"]
           /\ height' = currentHeight + 1
    /\ mq' = Append(Tail(mq), t)
    /\ UNCHANGED <<chain, nowMs, ticks, issued, validation, reads, lookup>>

\* addBlockAfterHeight without line 78: the counter is not raised
addBlockAfterHeight_NoRaise(t) ==
    /\ mq # <<>> /\ Head(mq) = t
    /\ tasks[t].pc = "awaitHeight"
    /\ LET currentHeight == tasks[t].currentHeight
           previous == PromiseHashProperty(getBlockByHeight(currentHeight))
       IN  /\ tasks' = [tasks EXCEPT
                          ![t].block.height = currentHeight + 1,
                          ![t].awaited = previous,
                          ![t].raised = @ + 1,
                          ![t].pc = "awaitPreviousHash"]
           /\ height' = height
    /\ mq' = Append(Tail(mq), t)
    /\ UNCHANGED <<chain, nowMs, ticks, issued, validation, reads, lookup>>

\* _addBlock, lines 76-80: resumed with the height read at the call; the
\* operand of the second await is evaluated here
addBlockAfterHeight(t) ==
    /\ mq # <<>> /\ Head(mq) = t
    /\ tasks[t].pc = "awaitHeight"
    /\ LET currentHeight == tasks[t].currentHeight
           previous == PromiseHashProperty(getBlockByHeight(currentHeight))
       IN  /\ tasks' = [tasks EXCEPT
                          ![t].block.height = currentHeight + 1,
                          ![t].awaited = previous,
                          ![t].raised = @ + 1,
                          ![t].pc = "awaitPreviousHash"]
           /\ height' = height + 1
    /\ mq' = Append(Tail(mq), t)
    /\ UNCHANGED <<chain, nowMs, ticks, issued, validation, reads, lookup>>

\* addBlockAfterPreviousHash with line 83 written as self.chain.unshift(block)
addBlockAfterPreviousHash_Unshift(t) ==
    /\ mq # <<>> /\ Head(mq) = t
    /\ tasks[t].pc = "awaitPreviousHash"
    /\ LET linked == [tasks[t].block EXCEPT
                        !.previousBlockHash = tasks[t].awaited]
           block == [linked EXCEPT !.hash = SHA256(HashInput(linked))]
       IN  /\ chain' = <<block>> \o chain
           /\ tasks' = [tasks EXCEPT
                          ![t].block = block,
                          ![t].pushed = @ + 1,
                          ![t].pc = "awaitAddBlock"]
    /\ mq' = Append(Tail(mq), t)
    /\ UNCHANGED <<height, nowMs, ticks, issued, validation, reads, lookup>>

\* addBlockAfterPreviousHash without line 82: the block is pushed unhashed
addBlockAfterPreviousHash_NoHash(t) ==
    /\ mq # <<>> /\ Head(mq) = t
    /\ tasks[t].pc = "awaitPreviousHash"
    /\ LET block == [tasks[t].block EXCEPT
                       !.previousBlockHash = tasks[t].awaited]
       IN  /\ chain' = Append(chain, block)
           /\ tasks' = [tasks EXCEPT
                          ![t].block = block,
                          ![t].pushed = @ + 1,
                          ![t].pc = "awaitAddBlock"]
    /\ mq' = Append(Tail(mq), t)
    /\ UNCHANGED <<height, nowMs, ticks, issued, validation, reads, lookup>>

\* _addBlock, lines 80-84: resumed with the awaited value; hash, push,
\* resolve(block)
addBlockAfterPreviousHash(t) ==
    /\ mq # <<>> /\ Head(mq) = t
    /\ tasks[t].pc = "awaitPreviousHash"
    /\ LET linked == [tasks[t].block EXCEPT
                        !.previousBlockHash = tasks[t].awaited]
           block == [linked EXCEPT !.hash = SHA256(HashInput(linked))]
       IN  /\ chain' = Append(chain, block)
           /\ tasks' = [tasks EXCEPT
                          ![t].block = block,
                          ![t].pushed = @ + 1,
                          ![t].pc = "awaitAddBlock"]
    /\ mq' = Append(Tail(mq), t)
    /\ UNCHANGED <<height, nowMs, ticks, issued, validation, reads, lookup>>

\* initializeChain, lines 43-45: resumed when _addBlock has resolved
initializeChainResume ==
    /\ mq # <<>> /\ Head(mq) = GenesisTask
    /\ tasks[GenesisTask].pc = "awaitAddBlock"
    /\ tasks' = [tasks EXCEPT ![GenesisTask].pc = "done"]
    /\ mq' = Tail(mq)
    /\ UNCHANGED <<chain, height, nowMs, ticks, issued, validation, reads, lookup>>

\* submitStar, lines 131-133: resumed when _addBlock has resolved; resolve()
\* settles the promise with undefined unless reject() settled it before
submitStarResume(t) ==
    /\ t \in Submits
    /\ mq # <<>> /\ Head(mq) = t
    /\ tasks[t].pc = "awaitAddBlock"
    /\ tasks' = [tasks EXCEPT
                   ![t].pc = "done",
                   ![t].promise = IF @ = "pending" THEN "resolved" ELSE @,
                   ![t].result = <<>>]
    /\ mq' = Tail(mq)
    /\ UNCHANGED <<chain, height, nowMs, ticks, issued, validation, reads, lookup>>

\* validateChain(), lines 210-233: the executor calls this.getBlockHeight,
\* which the class does not define; the call throws a TypeError inside the
\* async executor, whose own promise rejects, and the promise returned to the
\* caller is never settled
validateChain ==
    /\ validation.exec = "idle"
    /\ ReadCalls < MaxReads
    /\ validation' = [exec |-> "threw", promise |-> "pending", result |-> <<>>,
                      ledger |-> chain]
    /\ UNCHANGED <<chain, height, nowMs, ticks, issued, tasks, mq, reads, lookup>>

\* ---- read operations ----

\* getChainHeight(), lines 51-55, called by a client
getChainHeightCall ==
    /\ ReadCalls < MaxReads
    /\ reads' = [op |-> "getChainHeight", arg |-> <<>>, promise |-> "resolved",
                 result |-> <<getChainHeight>>, n |-> reads.n + 1]
    /\ UNCHANGED <<chain, height, nowMs, ticks, issued, tasks, mq, validation,
                   lookup>>

\* getBlockByHeightCall with line 170 assigning the filtered array to
\* self.chain
getBlockByHeightCall_Filters(h) ==
    /\ ReadCalls < MaxReads
    /\ reads' = [op |-> "getBlockByHeight", arg |-> <<h>>,
                 promise |-> "resolved",
                 result |-> getBlockByHeight(h), n |-> reads.n + 1]
    /\ chain' = SelectSeq(chain, LAMBDA p : p.height = h)
    /\ UNCHANGED <<height, nowMs, ticks, issued, tasks, mq, validation,
                   lookup>>

\* getBlockByHeight(h), lines 166-178, called by a client
getBlockByHeightCall(h) ==
    /\ ReadCalls < MaxReads
    /\ reads' = [op |-> "getBlockByHeight", arg |-> <<h>>,
                 promise |-> "resolved",
                 result |-> getBlockByHeight(h), n |-> reads.n + 1]
    /\ UNCHANGED <<chain, height, nowMs, ticks, issued, tasks, mq, validation,
                   lookup>>

\* getStarsByWalletAddress(address), lines 186-202: line 190 reads `hash`,
\* which is declared nowhere in the method or the module; the ReferenceError
\* is thrown inside the executor, so the promise is rejected and the scan of
\* lines 191-200 never runs
getStarsByWalletAddress(address) ==
    /\ ReadCalls < MaxReads
    /\ reads' = [op |-> "getStarsByWalletAddress", arg |-> <<address>>,
                 promise |-> "rejected",
                 result |-> <<>>, n |-> reads.n + 1]
    /\ UNCHANGED <<chain, height, nowMs, ticks, issued, tasks, mq, validation,
                   lookup>>

\* getBlockByHash(hash), lines 143-148: the synchronous part; getChainHeight()
\* is called now and its callback is queued
getBlockByHash(hash) ==
    /\ lookup.pc = "idle"
    /\ ReadCalls < MaxReads
    /\ lookup' = [IdleLookup EXCEPT
                    !.pc = "awaitHeight",
                    !.hash = hash,
                    !.height = getChainHeight]
    /\ mq' = Append(mq, HashTask)
    /\ UNCHANGED <<chain, height, nowMs, ticks, issued, tasks, validation,
                   reads>>

\* getBlockByHash, lines 148-156: the callback of getChainHeight; it calls
\* getBlockByHeight(i) for i = 0..height, each of which looks the block up
\* now, and queues one callback per call (none when height is -1)
getBlockByHashAfterHeight ==
    /\ mq # <<>> /\ Head(mq) = HashTask
    /\ lookup.pc = "awaitHeight"
    /\ LET blocks == [i \in 1..(lookup.height + 1) |-> getBlockByHeight(i - 1)]
       IN  IF blocks = <<>>
           THEN /\ lookup' = [lookup EXCEPT !.pc = "done"]
                /\ mq' = Tail(mq)
           ELSE /\ lookup' = [lookup EXCEPT !.pc = "awaitBlocks",
                                            !.blocks = blocks]
                /\ mq' = Append(Tail(mq), HashTask)
    /\ UNCHANGED <<chain, height, nowMs, ticks, issued, tasks, validation,
                   reads>>

\* the blocks among those looked up whose hash is the one asked for; a
\* callback that got null throws on block.hash and resolves nothing
MatchingBlocks(blocks, hash) ==
    SelectSeq(blocks, LAMBDA b : b # <<>> /\ b[1].hash = hash)

\* getBlockByHash, lines 151-155: the callbacks of the getBlockByHeight
\* calls, which run one after the other; the first match resolves the
\* promise, and without a match nothing ever settles it
getBlockByHashAfterBlocks ==
    /\ mq # <<>> /\ Head(mq) = HashTask
    /\ lookup.pc = "awaitBlocks"
    /\ LET matching == MatchingBlocks(lookup.blocks, lookup.hash)
       IN  lookup' = [lookup EXCEPT
                        !.pc = "done",
                        !.promise = IF matching # <<>> THEN "resolved"
                                                       ELSE "pending",
                        !.result = IF matching # <<>> THEN matching[1]
                                                      ELSE <<>>]
    /\ mq' = Tail(mq)
    /\ UNCHANGED <<chain, height, nowMs, ticks, issued, tasks, validation,
                   reads>>

\* the heights and the hashes the clients ask for
HeightsToRead == {0, height, height + 1}
HashesToLookUp == {chain[i].hash : i \in 1..Len(chain)} \cup {AbsentHash}

Next ==
    \/ \E d \in TickSteps : Tick(d)
    \/ \E a \in Addresses : requestMessageOwnershipVerification(a)
    \/ \E t \in Submits, a \in Addresses, m \in issued :
          \E sig \in Signatures(m), s \in Stars : submitStar(t, a, m, sig, s)
    \/ \E t \in Tasks : addBlockAfterHeight(t)
    \/ \E t \in Tasks : addBlockAfterPreviousHash(t)
    \/ initializeChainResume
    \/ \E t \in Submits : submitStarResume(t)
    \/ validateChain
    \/ getChainHeightCall
    \/ \E h \in HeightsToRead : getBlockByHeightCall(h)
    \/ \E a \in Addresses : getStarsByWalletAddress(a)
    \/ \E h \in HashesToLookUp : getBlockByHash(h)
    \/ getBlockByHashAfterHeight
    \/ getBlockByHashAfterBlocks

Spec == Init /\ [][Next]_vars

\* ---- the ledger with out-of-band mutation ----

\* a client overwrites the payload or the hash of a stored block through the
\* public field chain, before validateChain is called
Tamper(i, field) ==
    /\ i \in 1..Len(chain)
    /\ validation.exec = "idle"
    /\ chain' = IF field = "body"
                THEN [chain EXCEPT ![i].body = TamperedData]
                ELSE [chain EXCEPT ![i].hash = ForgedHash]
    /\ chain' # chain
    /\ UNCHANGED <<height, nowMs, ticks, issued, tasks, mq, validation,
                   reads, lookup>>

NextTamper ==
    \/ Next
    \/ \E i \in 1..Len(chain), field \in {"body", "hash"} : Tamper(i, field)

SpecTamper == Init /\ [][NextTamper]_vars

\* ---- notions the claims use ----

\* the calls of _addBlock that have started and not yet pushed their block
AppendsInFlight ==
    {t \in Tasks : tasks[t].pc \in {"awaitHeight", "awaitPreviousHash"}}

\* the submitStar calls that have run to their end
Completed == {t \in Submits : tasks[t].pc = "done"}

\* no operation other than the constructor has been called yet
OnlyConstructed ==
    /\ \A t \in Submits : tasks[t].pc = "idle"
    /\ issued = {}
    /\ validation.exec = "idle"

\* the positions of chain that hold a block of height h
PositionsOfHeight(h) == {i \in 1..Len(chain) : chain[i].height = h}

\* ---- the claims ----

\* C1: in every reachable state the block at position i of chain (counted
\* from 0) has height i: the heights are 0,1,2,... without gap or duplicate.
C1_HeightsContiguous ==
    \A i \in 1..Len(chain) : chain[i].height = i - 1

\* C2: in every reachable state, every block of height h > 0 stores as its
\* previous hash the stored hash of the block of height h-1.
C2_PreviousHashLinks ==
    \A i \in 1..Len(chain) :
        chain[i].height > 0 =>
            LET previous == getBlockByHeight(chain[i].height - 1)
            IN  /\ previous # <<>>
                /\ chain[i].previousBlockHash = previous[1].hash

\* C3: in every state an operation can observe, this.height equals
\* chain.length - 1.
C3_HeightMatchesLength ==
    height = Len(chain) - 1

\* C4: once the constructor has returned and before any other operation is
\* called, getChainHeight() yields 0 and chain is exactly the genesis block:
\* height 0, the genesis payload, the sentinel previous hash; a caller never
\* sees height -1.
C4_GenesisAfterConstructor ==
    /\ getChainHeight # -1
    /\ OnlyConstructed =>
          /\ getChainHeight = 0
          /\ Len(chain) = 1
          /\ chain[1].height = 0
          /\ chain[1].body = GenesisData
          /\ chain[1].previousBlockHash = Undefined

\* C5: once the genesis block is in chain it is the only block of height 0,
\* the only genesis block, and the block getBlockByHeight(0) returns.
C5_GenesisUnique ==
    (\E i \in 1..Len(chain) : chain[i].body = GenesisData) =>
        /\ Cardinality(PositionsOfHeight(0)) = 1
        /\ Cardinality({i \in 1..Len(chain) : chain[i].body = GenesisData}) = 1
        /\ getBlockByHeight(0) # <<>>
        /\ getBlockByHeight(0)[1].body = GenesisData

\* C6: a submitStar call with an unexpired challenge and an accepted
\* signature resolves, appends exactly one block, raises the height by
\* exactly 1, and its result is the appended block.
C6_ValidSubmitReturnsBlock ==
    \A t \in Completed :
        (~tasks[t].expired /\ tasks[t].verified) =>
            /\ tasks[t].promise = "resolved"
            /\ tasks[t].pushed = 1
            /\ tasks[t].raised = 1
            /\ tasks[t].result = <<tasks[t].block>>

\* C7: a submitStar call with an expired challenge is rejected and changes
\* nothing: it pushes no block and does not raise the height.
C7_ExpiredSubmitLeavesLedger ==
    \A t \in Submits :
        (tasks[t].pc # "idle" /\ tasks[t].expired) =>
            /\ tasks[t].promise = "rejected"
            /\ tasks[t].pushed = 0
            /\ tasks[t].raised = 0

\* C8: a submitStar call whose signature the verifier rejects is rejected
\* before any mutation: it pushes no block and does not raise the height.
C8_BadSignatureLeavesLedger ==
    \A t \in Submits :
        (tasks[t].pc # "idle" /\ ~tasks[t].verified) =>
            /\ tasks[t].promise # "resolved"
            /\ (tasks[t].pc = "done" => tasks[t].promise = "rejected")
            /\ tasks[t].pushed = 0
            /\ tasks[t].raised = 0

\* C9: appends are serialized: at most one append is in flight at a time,
\* and when none is, chain has 1 + (number of successful submissions)
\* blocks, all heights are distinct and every previous hash matches the
\* hash of the block before.
C9_AppendsSerialized ==
    /\ Cardinality(AppendsInFlight) <= 1
    /\ AppendsInFlight = {} =>
          /\ Len(chain) =
                1 + Cardinality({t \in Submits :
                                    /\ tasks[t].pc \in {"awaitAddBlock", "done"}
                                    /\ tasks[t].promise # "rejected"})
          /\ \A i, j \in 1..Len(chain) :
                chain[i].height = chain[j].height => i = j
          /\ \A i \in 2..Len(chain) :
                chain[i].previousBlockHash = chain[i - 1].hash

\* C10: validateChain, called on a ledger built by the constructor and by
\* submissions only, completes and returns the empty list of issues.
C10_ValidateReturnsEmpty ==
    validation.exec # "idle" =>
        /\ validation.promise = "resolved"
        /\ validation.result = <<>>

\* ---- notions of the later claims ----

\* the hash stored in a block is not the hash of its stored fields
HashMismatch(block) == block.hash # SHA256(HashInput(block))

\* the block of height h-1 of a ledger does not carry the hash that the
\* block b of height h stores as its previous hash
BrokenLink(ledger, b) ==
    /\ b.height > 0
    /\ ~\E j \in 1..Len(ledger) :
            /\ ledger[j].height = b.height - 1
            /\ ledger[j].hash = b.previousBlockHash

\* block b of a ledger was altered out of band, or the block before it was
AlteredAt(ledger, b) ==
    \/ HashMismatch(b)
    \/ /\ BrokenLink(ledger, b)
       /\ \E j \in 1..Len(ledger) :
             ledger[j].height = b.height - 1 /\ HashMismatch(ledger[j])

\* the elements of a sequence
Range(seq) == {seq[i] : i \in 1..Len(seq)}

\* the stars of the successful submissions of an address, in submission order
StarsOf(address) ==
    LET calls == [t \in 1..MaxSubmits |-> tasks[t]]
        mine == SelectSeq(calls, LAMBDA r : /\ r.pc = "done"
                                            /\ r.promise = "resolved"
                                            /\ r.address = address)
    IN  [i \in 1..Len(mine) |-> mine[i].star]

\* a step of a read operation or of the challenge issuer, told by what only
\* these operations write: the record of the last read, of the hash lookup
\* and of the validation, and the messages handed out
ReadStep ==
    \/ reads'.n # reads.n
    \/ lookup'.pc # lookup.pc
    \/ validation'.exec # validation.exec
    \/ issued' # issued

\* the step is a call of getStarsByWalletAddress
StarsStep ==
    /\ reads'.n # reads.n
    /\ reads'.op = "getStarsByWalletAddress"

\* the calls of _addBlock that have executed line 78
Raised ==
    {t \in Tasks : tasks[t].pc \in {"awaitPreviousHash", "awaitAddBlock", "done"}}

\* ---- the later claims ----

\* C11: when a stored block at height h was altered out of band (its payload
\* or its hash, or the hash of the block before it so that the link to h is
\* broken), validateChain returns a list that contains h.
C11_ValidationDetectsTampering ==
    validation.exec # "idle" =>
        \A i \in 1..Len(validation.ledger) :
            AlteredAt(validation.ledger, validation.ledger[i]) =>
                /\ validation.promise = "resolved"
                /\ validation.ledger[i].height \in Range(validation.result)

\* C12: in every reachable state getBlockByHeight(height) returns the block
\* appended last and getBlockByHeight(height + 1) returns null.
C12_TailLookup ==
    /\ getBlockByHeight(height + 1) = <<>>
    /\ Len(chain) > 0 => getBlockByHeight(height) = <<chain[Len(chain)]>>

\* C13: getStarsByWalletAddress(A) resolves with exactly the stars of the
\* successful submissions of A, in submission order.
C13_StarsOfAddress ==
    [][StarsStep =>
          /\ reads'.promise = "resolved"
          /\ reads'.result = StarsOf(reads'.arg[1])]_vars

\* C14: the ledger is append-only: in every step the chain before is a
\* prefix of the chain after, so no block is removed, moved or changed and
\* the length never decreases.
C14_AppendOnly ==
    [][/\ Len(chain') >= Len(chain)
       /\ SubSeq(chain', 1, Len(chain)) = chain]_vars

\* C14 witness: a block has been appended to a chain that already held one
C14_Witness == Len(chain) >= 2

\* C15: no operation blocks for ever: once a call has run all its code (its
\* synchronous part and every job it queued) its promise is settled, also
\* for getBlockByHash of a hash no block has.
C15_CallsComplete ==
    /\ reads.op # "none" => reads.promise # "pending"
    /\ lookup.pc = "done" => lookup.promise # "pending"
    /\ validation.exec # "idle" => validation.promise # "pending"
    /\ \A t \in Completed : tasks[t].promise # "pending"

C17_FailFast ==
    \A t \in Submits :
        /\ tasks[t].expired =>
              ~tasks[t].verifyCalled /\ ~tasks[t].addBlockCalled
        /\ (tasks[t].verifyCalled /\ ~tasks[t].verified) =>
              ~tasks[t].addBlockCalled

\* C18: the read operations and the challenge issuer leave the ledger
\* alone: no step of requestMessageOwnershipVerification, getChainHeight,
\* getBlockByHeight, getBlockByHash, getStarsByWalletAddress or
\* validateChain changes chain or height.
C18_ReadsArePure ==
    [][ReadStep => (chain' = chain /\ height' = height)]_vars

\* C18 witness: getBlockByHash has run to its end and found a block
C18_Witness == lookup.pc = "done" /\ lookup.promise = "resolved"

\* C19: the counter loses no update: height is -1 plus the number of
\* _addBlock calls that have executed line 78, each call raises it once,
\* and when no append is in flight it is the number of calls minus 1.
C19_NoLostUpdate ==
    /\ height = Cardinality(Raised) - 1
    /\ \A t \in Tasks : tasks[t].raised = (IF t \in Raised THEN 1 ELSE 0)
    /\ AppendsInFlight = {} =>
          height = Cardinality({t \in Tasks : tasks[t].addBlockCalled}) - 1

\* C19 witness: two appends interleave and both have raised the counter
C19_Witness ==
    /\ height = 1
    /\ Cardinality({t \in Tasks : tasks[t].pc = "awaitPreviousHash"}) = 2

\* C20: every block in chain has a height between 0 and this.height.
C20_HeightsWithinCounter ==
    \A i \in 1..Len(chain) :
        0 <= chain[i].height /\ chain[i].height <= height

\* C20 witness: two blocks are in chain and the last one lies below the
\* counter
C20_Witness ==
    /\ Len(chain) >= 2
    /\ chain[Len(chain)].height < height

====
